---- MODULE Spec2Model ----
(***************************************************************************)
(* RPiPlay, renderers/audio_renderer_alsa.c: the AAC renderer that decodes *)
(* with fdk-aac and plays through ALSA.  The model follows one process     *)
(* that creates renderers, renders buffers, sets the volume and destroys   *)
(* renderers.  Every handler is one action; the library calls a handler    *)
(* makes, in program order, are recorded in `calls`, and the heap is       *)
(* updated from that record.                                               *)
(***************************************************************************)
EXTENDS Integers, Sequences, FiniteSets, TLC

(* ------------------------------ bounds -------------------------------- *)

\* Number of audio_renderer_alsa_init calls made by the process.
MaxRenderers == 2
\* The same, for the specification that follows one renderer at a time.
MaxSoloRenderers == 1
\* Longest control-element list a device exposes.
MaxElems == 2

(* ------------------------- program constants -------------------------- *)

\* INT time_data_size = 4 * 480;
BytesPerSample == 4
SamplesPerBuffer == 480
time_data_size == BytesPerSample * SamplesPerBuffer
\* snd_pcm_set_params(..., SND_PCM_FORMAT_S16_LE, ..., 2, 44100, ...)
Channels == 2
SampleBytes == 2
SampleRate == 44100
\* (long)volume * 200
VolumeScale == 200

Slots == 1..MaxRenderers

\* Everything a renderer instance takes from the heap or from a library.
Res == {"renderer", "audio_decoder", "audio_renderer", "ctl", "ctl_elem_id",
        "p_time_data"}

\* One library call: the function, the object it is applied to, one
\* argument and the value it returned.  For a releasing call `arg` is 1
\* when the pointer passed refers to an object and 0 when it is NULL.
Call(fn, obj, arg, ret) == [fn |-> fn, obj |-> obj, arg |-> arg, ret |-> ret]

(* --------------------------- the heap ---------------------------------- *)

\* The kind of object a call hands out, or "none".
Acquired(c) ==
    CASE c.fn = "calloc" /\ c.ret = 1                  -> "renderer"
      [] c.fn = "aacDecoder_Open" /\ c.ret = 1         -> "audio_decoder"
      [] c.fn = "snd_pcm_open" /\ c.ret >= 0           -> "audio_renderer"
      [] c.fn = "snd_ctl_open" /\ c.ret >= 0           -> "ctl"
      [] c.fn = "snd_ctl_elem_id_malloc" /\ c.ret >= 0 -> "ctl_elem_id"
      [] c.fn = "malloc" /\ c.ret = 1                  -> "p_time_data"
      [] OTHER                                         -> "none"

\* The kind of object a call gives back, or "none".
Released(c) ==
    CASE c.arg # 1                   -> "none"
      [] c.fn = "free"               -> c.obj
      [] c.fn = "aacDecoder_Close"   -> "audio_decoder"
      [] c.fn = "snd_pcm_close"      -> "audio_renderer"
      [] c.fn = "snd_ctl_close"      -> "ctl"
      [] c.fn = "snd_ctl_elem_id_free" -> "ctl_elem_id"
      [] OTHER                       -> "none"

\* Outstanding objects of one instance after the first n calls of `trace`.
RECURSIVE HeapAfter(_, _, _)
HeapAfter(before, trace, n) ==
    IF n = 0
    THEN before
    ELSE LET h == HeapAfter(before, trace, n - 1)
             a == Acquired(trace[n])
             d == Released(trace[n])
         IN  IF a # "none" THEN [h EXCEPT ![a] = @ + 1]
             ELSE IF d # "none" THEN [h EXCEPT ![d] = @ - 1]
             ELSE h

Heap(before, trace) == HeapAfter(before, trace, Len(trace))

\* Number of times the calls of a trace applied a raw configuration to the
\* decoder: aacDecoder_ConfigRaw returning AAC_DEC_OK.
ConfigsApplied(trace) ==
    Len(SelectSeq(trace,
                  LAMBDA c : c.fn = "aacDecoder_ConfigRaw" /\ c.ret = 0))

\* Number of calls of a trace that satisfy P.
Count(trace, P(_)) == Cardinality({i \in DOMAIN trace : P(trace[i])})

(* ----------------------- control-element names ------------------------- *)

\* A name is a sequence of words; strstr looks for a contiguous run.
PlaybackVolume == <<"Playback", "Volume">>

ElemNames == { <<"Master", "Playback", "Volume">>,
               <<"PCM", "Playback", "Switch">> }

ElemLists == UNION {[1..n -> ElemNames] : n \in 0..MaxElems}

\* strstr(haystack, needle) != NULL
strstr(haystack, needle) ==
    \E i \in 0..(Len(haystack) - Len(needle)) :
        SubSeq(haystack, i + 1, i + Len(needle)) = needle

(* ------------------- audio_renderer_alsa_init: inputs ------------------ *)

\* The phase of construction that fails (fail), what happens on the control
\* surface when no fatal phase fails (ctl), and the element list the two
\* snd_ctl_elem_list calls deliver (elems).  When the second call fails the
\* list holds the zeroed entries of snd_ctl_elem_list_alloc_space: blank
\* names.  "openFailErr" and "openFailAbort" are the two things a library
\* call can do with the NULL ctl a failed snd_ctl_open leaves behind:
\* return an error, or end the process.
FatalPoints == {"calloc", "decOpen", "configRaw", "streamInfo", "pcmOpen",
                "setParams"}

BlankLists == {[i \in 1..n |-> <<>>] : n \in 1..MaxElems}

NoInput == [fail |-> "none", ctl |-> "ok", elems |-> <<>>]

InitInputs ==
    {[fail |-> f, ctl |-> "ok", elems |-> <<>>] : f \in FatalPoints}
    \cup {[fail |-> "none", ctl |-> c, elems |-> <<>>] :
            c \in {"openFailErr", "openFailAbort", "idMallocFail", "listFail"}}
    \cup {[fail |-> "none", ctl |-> "fillFail", elems |-> e] : e \in BlankLists}
    \cup {[fail |-> "none", ctl |-> "ok", elems |-> e] : e \in ElemLists}

(* ------------------------------ logging -------------------------------- *)

\* logger_log(logger, LOGGER_ERR, msg); debug and info messages are not
\* recorded.
Log(msg) == Call("logger_log", msg, 0, 0)

\* #define CHK_ALSA_ERRNO(err, msg, r)
CHK_ALSA_ERRNO(err, msg) == IF err < 0 THEN <<Log(msg)>> ELSE <<>>

(* -------------------- audio_renderer_alsa_t ---------------------------- *)

\* The structure right after calloc(1, sizeof(audio_renderer_alsa_t)).
\* numid is the numid field of *ctl_elem_id (0 after
\* snd_ctl_elem_id_malloc, and while there is no ctl_elem_id).
ZeroRenderer ==
    [audio_decoder |-> "NULL", audio_renderer |-> "NULL", ctl |-> "NULL",
     ctl_elem_id |-> "NULL", numid |-> 0]

\* 1 for a pointer that refers to an object, 0 for NULL.
Ptr(p) == IF p = "NULL" THEN 0 ELSE 1

(* ------------------ audio_renderer_alsa_init_decoder ------------------- *)

\* An init_decoder that never applies the raw configuration.
init_decoder_NoConfigRaw(in) ==
    LET open   == Call("aacDecoder_Open", "audio_decoder", 1,
                       IF in.fail = "decOpen" THEN 0 ELSE 1)
        info   == Call("aacDecoder_GetStreamInfo", "audio_decoder", 0,
                       IF in.fail = "streamInfo" THEN 0 ELSE 1)
    IN  IF open.ret = 0
        THEN [ret |-> -1,
              calls |-> <<open, Log("aacDecoder open failed!")>>]
        ELSE IF info.ret = 0
        THEN [ret |-> -3,
              calls |-> <<open, info,
                          Log("aacDecoder_GetStreamInfo failed!")>>]
        ELSE [ret |-> 1, calls |-> <<open, info>>]

audio_renderer_alsa_init_decoder(in) ==
    LET open   == Call("aacDecoder_Open", "audio_decoder", 1,
                       IF in.fail = "decOpen" THEN 0 ELSE 1)
        config == Call("aacDecoder_ConfigRaw", "audio_decoder", 4,
                       IF in.fail = "configRaw" THEN 5 ELSE 0)
        info   == Call("aacDecoder_GetStreamInfo", "audio_decoder", 0,
                       IF in.fail = "streamInfo" THEN 0 ELSE 1)
    IN  IF open.ret = 0
        THEN [ret |-> -1,
              calls |-> <<open, Log("aacDecoder open failed!")>>]
        ELSE IF config.ret # 0
        THEN [ret |-> -2,
              calls |-> <<open, config, Log("Unable to set configRaw")>>]
        ELSE IF info.ret = 0
        THEN [ret |-> -3,
              calls |-> <<open, config, info,
                          Log("aacDecoder_GetStreamInfo failed!")>>]
        ELSE [ret |-> 1, calls |-> <<open, config, info>>]

\* A destroy_decoder that forgets aacDecoder_Close.
destroy_decoder_NoClose(ptr) == <<>>

\* audio_renderer_alsa_destroy_decoder, on a decoder pointer that refers to
\* a decoder (ptr = 1) or is NULL (ptr = 0).
audio_renderer_alsa_destroy_decoder(ptr) ==
    <<Call("aacDecoder_Close", "audio_decoder", ptr, 0)>>

(* ------------------ audio_renderer_rpi_init_renderer ------------------- *)

\* The element list as the scan reads it: entry i has numid i, and a blank
\* entry has numid 0.
ListRead(in) ==
    [i \in 1..Len(in.elems) |->
        [name |-> in.elems[i],
         numid |-> IF in.elems[i] = <<>> THEN 0 ELSE i]]

\* snd_ctl_elem_list_get_count after the first snd_ctl_elem_list: the list
\* stays zeroed when that call fails.
ListCount(in) ==
    IF in.ctl \in {"openFailErr", "openFailAbort", "listFail"}
    THEN 0
    ELSE Len(in.elems)

\* The loop `for ( ;count != 0; count-- )`, entered with mHasCtrlVolume =
\* true and the numid of a fresh ctl_elem_id: the flag and the numid it
\* leaves, and whether snd_ctl_elem_id_set_numid was called.
RECURSIVE ScanElems(_, _)
ScanElems(list, count) ==
    IF count = 0
    THEN [has |-> TRUE, numid |-> 0, found |-> FALSE]
    ELSE IF strstr(list[count].name, PlaybackVolume)
    THEN [has |-> TRUE, numid |-> list[count].numid, found |-> TRUE]
    ELSE IF count = 1
    THEN [has |-> FALSE, numid |-> 0, found |-> FALSE]
    ELSE ScanElems(list, count - 1)

\* Lines 119-148: the control surface.  `abort` says that a library call
\* was handed a NULL pointer and ended the process; `wrote` says that line
\* 132 (mHasCtrlVolume = true) was reached.
OpenControlSurface(in) ==
    LET ctlOk  == in.ctl \notin {"openFailErr", "openFailAbort"}
        idOk   == in.ctl # "idMallocFail"
        listRet == IF ~ctlOk THEN -22
                   ELSE IF in.ctl = "listFail" THEN -5 ELSE 0
        fillRet == IF ~ctlOk THEN -22
                   ELSE IF in.ctl \in {"listFail", "fillFail"} THEN -5 ELSE 0
        open   == <<Call("snd_ctl_open", "ctl", 0, IF ctlOk THEN 0 ELSE -2)>>
                  \o CHK_ALSA_ERRNO(IF ctlOk THEN 0 ELSE -2, "Ctrl open")
        idm    == <<Call("snd_ctl_elem_id_malloc", "ctl_elem_id", 0,
                         IF idOk THEN 0 ELSE -12)>>
                  \o CHK_ALSA_ERRNO(IF idOk THEN 0 ELSE -12,
                                    "Ctrl mem allocation")
        iface  == <<Call("snd_ctl_elem_id_set_interface", "ctl_elem_id",
                         IF idOk THEN 1 ELSE 0, 0)>>
        list1  == <<Call("snd_ctl_elem_list", "ctl", IF ctlOk THEN 1 ELSE 0,
                         listRet)>>
        count  == ListCount(in)
        space  == <<Call("snd_ctl_elem_list_alloc_space", "list", count, 0)>>
        list2  == <<Call("snd_ctl_elem_list", "ctl", IF ctlOk THEN 1 ELSE 0,
                         fillRet)>>
                  \o CHK_ALSA_ERRNO(fillRet, "Get ALSA control element list")
        scan   == ScanElems(ListRead(in), count)
        setid  == IF scan.found
                  THEN <<Call("snd_ctl_elem_id_set_numid", "ctl_elem_id",
                              scan.numid, 0)>>
                  ELSE <<>>
        unspace == <<Call("snd_ctl_elem_list_free_space", "list", count, 0)>>
    IN  IF ~idOk
        THEN [abort |-> TRUE, calls |-> open \o idm \o iface,
              ctl |-> "set", ctl_elem_id |-> "NULL", numid |-> 0,
              has |-> FALSE, wrote |-> FALSE]
        ELSE IF in.ctl = "openFailAbort"
        THEN [abort |-> TRUE, calls |-> open \o idm \o iface \o list1,
              ctl |-> "NULL", ctl_elem_id |-> "set", numid |-> 0,
              has |-> FALSE, wrote |-> FALSE]
        ELSE [abort |-> FALSE,
              calls |-> open \o idm \o iface \o list1
                        \o CHK_ALSA_ERRNO(listRet,
                                          "Get ALSA control element list")
                        \o space \o list2 \o setid \o unspace,
              ctl |-> IF ctlOk THEN "set" ELSE "NULL",
              ctl_elem_id |-> "set",
              numid |-> scan.numid, has |-> scan.has, wrote |-> TRUE]

\* `flag` is mHasCtrlVolume on entry; the result carries its value on exit.
audio_renderer_rpi_init_renderer(in, flag) ==
    LET open   == Call("snd_pcm_open", "audio_renderer", 0,
                       IF in.fail = "pcmOpen" THEN -2 ELSE 0)
        params == Call("snd_pcm_set_params", "audio_renderer", SampleRate,
                       IF in.fail = "setParams" THEN -22 ELSE 0)
        cs     == OpenControlSurface(in)
    IN  IF open.ret < 0
        THEN [ret |-> -51, abort |-> FALSE,
              calls |-> <<open, Log("snd_strerror")>>,
              flag |-> flag, r |-> ZeroRenderer]
        ELSE IF params.ret < 0
        THEN [ret |-> -52, abort |-> FALSE,
              calls |-> <<open, params, Log("snd_strerror")>>,
              flag |-> flag, r |-> ZeroRenderer]
        ELSE [ret |-> 1, abort |-> cs.abort,
              calls |-> <<open, params>> \o cs.calls,
              flag |-> IF cs.wrote THEN cs.has ELSE flag,
              r |-> [audio_decoder |-> "set", audio_renderer |-> "set",
                     ctl |-> cs.ctl, ctl_elem_id |-> cs.ctl_elem_id,
                     numid |-> cs.numid]]

(* ----------------------- audio_renderer_alsa_init ---------------------- *)

FreeRenderer == Call("free", "renderer", 1, 0)

\* The whole creation call: what it returns ("handle", "NULL", or "abort"
\* when the process ended inside it), the library calls it made, the flag
\* and the structure it leaves (zeroed here when the structure was freed
\* and no pointer to it remains).
audio_renderer_alsa_init(in, flag) ==
    LET alloc == Call("calloc", "renderer", 1,
                      IF in.fail = "calloc" THEN 0 ELSE 1)
        dec   == audio_renderer_alsa_init_decoder(in)
        dev   == audio_renderer_rpi_init_renderer(in, flag)
    IN  IF alloc.ret = 0
        THEN [ret |-> "NULL", calls |-> <<alloc>>, flag |-> flag,
              r |-> ZeroRenderer]
        ELSE IF dec.ret # 1
        THEN [ret |-> "NULL",
              calls |-> <<alloc>> \o dec.calls \o <<FreeRenderer>>,
              flag |-> flag, r |-> ZeroRenderer]
        ELSE IF dev.abort
        THEN [ret |-> "abort",
              calls |-> <<alloc>> \o dec.calls \o dev.calls,
              flag |-> dev.flag, r |-> dev.r]
        ELSE IF dev.ret # 1
        THEN [ret |-> "NULL",
              calls |-> <<alloc>> \o dec.calls \o dev.calls
                        \o audio_renderer_alsa_destroy_decoder(1)
                        \o <<FreeRenderer>>,
              flag |-> dev.flag, r |-> ZeroRenderer]
        ELSE [ret |-> "handle",
              calls |-> <<alloc>> \o dec.calls \o dev.calls,
              flag |-> dev.flag, r |-> dev.r]

(* ------------------- audio_renderer_alsa_render_buffer ----------------- *)

\* snd_pcm_bytes_to_frames on a stream of 2 channels of S16_LE samples.
snd_pcm_bytes_to_frames(bytes) == bytes \div (Channels * SampleBytes)

\* What the libraries answer during one render call: the results of
\* aacDecoder_Fill, malloc, aacDecoder_DecodeFrame, snd_pcm_writei and
\* snd_pcm_recover.  A write from a NULL buffer fails with -EFAULT.
RenderInputs ==
    {[fill |-> f, malloc |-> TRUE, decode |-> d, written |-> w,
      recover |-> 0] :
        f \in {0, 5}, d \in {0, 5}, w \in {240, 480}}
    \cup {[fill |-> f, malloc |-> TRUE, decode |-> d, written |-> -32,
           recover |-> v] :
        f \in {0, 5}, d \in {0, 5}, v \in {0, -32}}
    \cup {[fill |-> f, malloc |-> FALSE, decode |-> 5, written |-> -14,
           recover |-> -14] : f \in {0, 5}}

DataLens == {0, 370}

\* The answers of a call in which nothing fails.
QuietRender ==
    [fill |-> 0, malloc |-> TRUE, decode |-> 0, written |-> 480,
     recover |-> 0]

\* A write that is submitted again after the recovery.
WriteFrame_Retry(receivedFrames, in) ==
    LET write   == <<Call("snd_pcm_writei", "audio_renderer", receivedFrames,
                          in.written)>>
        recover == IF in.written < 0
                   THEN <<Call("snd_pcm_recover", "audio_renderer",
                               in.written, in.recover),
                          Call("snd_pcm_writei", "audio_renderer",
                               receivedFrames, in.recover)>>
                   ELSE <<>>
    IN  write \o recover

\* A write that submits the rest of the frame after a partial write.
WriteFrame_ResubmitRemainder(receivedFrames, in) ==
    LET write   == <<Call("snd_pcm_writei", "audio_renderer", receivedFrames,
                          in.written)>>
        recover == IF in.written < 0
                   THEN <<Call("snd_pcm_recover", "audio_renderer",
                               in.written, in.recover)>>
                   ELSE <<>>
        playedFrames == IF in.written < 0 THEN in.recover ELSE in.written
        errlog  == IF playedFrames < 0
                   THEN <<Log("snd_strerror")>> ELSE <<>>
        partial == IF playedFrames > 0 /\ playedFrames < receivedFrames
                   THEN <<Log("ALSA: Expected write"),
                          Call("snd_pcm_writei", "audio_renderer",
                               receivedFrames - playedFrames,
                               receivedFrames - playedFrames)>>
                   ELSE <<>>
    IN  write \o recover \o errlog \o partial

\* Lines 230-240: the write of receivedFrames frames, the recovery after
\* a negative result, and the two diagnostics.
WriteFrame(receivedFrames, in) ==
    LET write   == <<Call("snd_pcm_writei", "audio_renderer", receivedFrames,
                          in.written)>>
        recover == IF in.written < 0
                   THEN <<Call("snd_pcm_recover", "audio_renderer",
                               in.written, in.recover)>>
                   ELSE <<>>
        playedFrames == IF in.written < 0 THEN in.recover ELSE in.written
        errlog  == IF playedFrames < 0
                   THEN <<Log("snd_strerror")>> ELSE <<>>
        partial == IF playedFrames > 0 /\ playedFrames < receivedFrames
                   THEN <<Log("ALSA: Expected write")>> ELSE <<>>
    IN  write \o recover \o errlog \o partial

\* A render call that gives up at the first decoder error.
RenderFrame_StopOnDecoderError(data_len, in) ==
    LET fill    == <<Call("aacDecoder_Fill", "audio_decoder", data_len,
                          in.fill)>>
                   \o (IF in.fill # 0
                       THEN <<Log("aacDecoder_Fill error")>> ELSE <<>>)
        alloc   == <<Call("malloc", "p_time_data", time_data_size,
                          IF in.malloc THEN 1 ELSE 0)>>
        decode  == <<Call("aacDecoder_DecodeFrame", "audio_decoder",
                          time_data_size, in.decode)>>
                   \o (IF in.decode # 0
                       THEN <<Log("aacDecoder_DecodeFrame error")>>
                       ELSE <<>>)
        release == <<Call("free", "p_time_data",
                          IF in.malloc THEN 1 ELSE 0, 0)>>
    IN  IF in.fill # 0
        THEN fill
        ELSE IF in.decode # 0
        THEN fill \o alloc \o decode \o release
        ELSE fill \o alloc \o decode
             \o WriteFrame(snd_pcm_bytes_to_frames(time_data_size), in)
             \o release

\* A render call that returns without freeing the frame buffer when the
\* write failed and could not be recovered.
RenderFrame_LeakOnFailedWrite(data_len, in) ==
    LET fill    == <<Call("aacDecoder_Fill", "audio_decoder", data_len,
                          in.fill)>>
                   \o (IF in.fill # 0
                       THEN <<Log("aacDecoder_Fill error")>> ELSE <<>>)
        alloc   == <<Call("malloc", "p_time_data", time_data_size,
                          IF in.malloc THEN 1 ELSE 0)>>
        decode  == <<Call("aacDecoder_DecodeFrame", "audio_decoder",
                          time_data_size, in.decode)>>
                   \o (IF in.decode # 0
                       THEN <<Log("aacDecoder_DecodeFrame error")>>
                       ELSE <<>>)
        release == IF in.written < 0 /\ in.recover < 0
                   THEN <<>>
                   ELSE <<Call("free", "p_time_data",
                               IF in.malloc THEN 1 ELSE 0, 0)>>
    IN  fill \o alloc \o decode
        \o WriteFrame(snd_pcm_bytes_to_frames(time_data_size), in)
        \o release

\* Lines 199-242: the calls of a render call that got past the length
\* check.
RenderFrame(data_len, in) ==
    LET fill    == <<Call("aacDecoder_Fill", "audio_decoder", data_len,
                          in.fill)>>
                   \o (IF in.fill # 0
                       THEN <<Log("aacDecoder_Fill error")>> ELSE <<>>)
        alloc   == <<Call("malloc", "p_time_data", time_data_size,
                          IF in.malloc THEN 1 ELSE 0)>>
        decode  == <<Call("aacDecoder_DecodeFrame", "audio_decoder",
                          time_data_size, in.decode)>>
                   \o (IF in.decode # 0
                       THEN <<Log("aacDecoder_DecodeFrame error")>>
                       ELSE <<>>)
        release == <<Call("free", "p_time_data",
                          IF in.malloc THEN 1 ELSE 0, 0)>>
    IN  fill \o alloc \o decode
        \o WriteFrame(snd_pcm_bytes_to_frames(time_data_size), in)
        \o release

\* A render_buffer without `if (data_len == 0) return;`.
render_buffer_NoLengthCheck(data_len, in) == RenderFrame(data_len, in)

\* The calls of one audio_renderer_alsa_render_buffer(renderer, ntp, data,
\* data_len, pts).
audio_renderer_alsa_render_buffer(data_len, in) ==
    IF data_len = 0 THEN <<>> ELSE RenderFrame(data_len, in)

(* --------------------- audio_renderer_alsa_set_volume ------------------ *)

\* The float volume is given in half units (-29 is -14.5).
Volumes == {-60, -29}

\* (long)volume: truncation toward zero.
CastLong(half) == IF half >= 0 THEN half \div 2 ELSE -((-half) \div 2)

\* snd_ctl_convert_from_dB(ctl, id, gain, &raw, 0) on an element with a
\* linear range of -60 dB .. 0 dB in steps of 15 dB: the nearest raw value.
snd_ctl_convert_from_dB(gain) ==
    LET clipped == IF gain < -6000 THEN -6000 ELSE IF gain > 0 THEN 0 ELSE gain
    IN  (clipped + 6000 + 750) \div 1500

\* What the library answers during one set-volume call: whether the
\* conversion and the write succeed on a valid element, the value an
\* unwritten `long raw` holds, and what a call does with a NULL ctl.
VolumeInputs ==
    [convOk : BOOLEAN, writeOk : BOOLEAN, garbage : {0, 2},
     ub : {"error", "abort"}]

\* Each answer the call does not read is fixed, so that one call is one
\* input: nothing is read when the flag is off, only `ub` with a NULL ctl,
\* nothing on an element the device does not know, and `garbage` only when
\* the conversion fails.
VolumeInputRead(flag, rr, dev, in) ==
    LET known == rr.numid \in 1..Len(dev.elems)
    IN  /\ (~flag \/ rr.ctl # "NULL") => in.ub = "error"
        /\ (~flag \/ rr.ctl = "NULL" \/ ~known) => in.convOk /\ in.writeOk
        /\ (~flag \/ (rr.ctl # "NULL" /\ known /\ in.convOk))
              => in.garbage = 0

\* One audio_renderer_alsa_set_volume(renderer, volume) with mHasCtrlVolume
\* = flag on the structure rr and the control surface dev.
audio_renderer_alsa_set_volume(flag, rr, dev, volume, in) ==
    IF ~flag
    THEN [calls |-> <<>>, dev |-> dev, abort |-> FALSE]
    ELSE
    LET gain    == CastLong(volume) * VolumeScale
        known   == rr.numid \in 1..Len(dev.elems)
        convRet == IF rr.ctl = "NULL" THEN -22
                   ELSE IF ~known THEN -2
                   ELSE IF ~in.convOk THEN -5 ELSE 0
        raw     == IF convRet = 0 THEN snd_ctl_convert_from_dB(gain)
                   ELSE in.garbage
        writeRet == IF rr.ctl = "NULL" THEN -22
                    ELSE IF ~known THEN -2
                    ELSE IF ~in.writeOk THEN -5 ELSE 0
        convert == <<Call("snd_ctl_convert_from_dB", "ctl", gain, convRet)>>
        fill    == <<Call("snd_ctl_elem_value_set_id", "value", rr.numid, 0),
                     Call("snd_ctl_elem_value_set_integer", "value[0]",
                          raw, 0),
                     Call("snd_ctl_elem_value_set_integer", "value[1]",
                          raw, 0)>>
        write   == <<Call("snd_ctl_elem_write", "ctl", rr.numid, writeRet)>>
    IN  IF rr.ctl = "NULL" /\ in.ub = "abort"
        THEN [calls |-> convert, dev |-> dev, abort |-> TRUE]
        ELSE [calls |-> convert \o CHK_ALSA_ERRNO(convRet, "Convert")
                        \o fill \o write
                        \o CHK_ALSA_ERRNO(writeRet, "Set volume"),
              dev |-> IF writeRet = 0
                      THEN [dev EXCEPT !.left = raw, !.right = raw]
                      ELSE dev,
              abort |-> FALSE]

(* ------------------------ audio_renderer_alsa_destroy ------------------ *)

\* What the library answers during one destroy call: the results of
\* snd_pcm_drain, snd_pcm_close and snd_ctl_close on open handles, and what
\* a call does with a pointer that refers to no open object (a NULL ctl,
\* or any field read from a freed structure): it goes on, or it ends the
\* process.
DestroyInputs ==
    [drain : {0, -5}, close : {0, -5}, ctlclose : {0, -5},
     ub : {"proceed", "abort"}]

\* Each answer the call does not read is fixed: none is read on a NULL
\* pointer or once the process has ended, and `ub` only on a dangling
\* pointer or with a NULL ctl.
DestroyInputRead(h, rr, in) ==
    /\ (h = "NULL" \/ (h = "dangling" /\ in.ub = "abort"))
          => in.drain = 0 /\ in.close = 0 /\ in.ctlclose = 0
    /\ rr.ctl = "NULL" => in.ctlclose = 0
    /\ (h = "NULL" \/ (h = "valid" /\ rr.ctl # "NULL")) => in.ub = "proceed"

Flush == Call("audio_renderer_alsa_flush", "renderer", 1, 0)

\* A destroy_renderer that closes the PCM stream before draining it.
rpi_destroy_renderer_CloseFirst(rr, in) ==
    [calls |-> <<Call("snd_pcm_close", "audio_renderer",
                      Ptr(rr.audio_renderer), in.close),
                 Call("snd_pcm_drain", "audio_renderer",
                      Ptr(rr.audio_renderer), in.drain),
                 Call("snd_ctl_close", "ctl", Ptr(rr.ctl), in.ctlclose)>>,
     abort |-> FALSE]

\* A destroy_renderer that returns at the first failing step.
rpi_destroy_renderer_StopOnError(rr, in) ==
    LET drain == <<Call("snd_pcm_drain", "audio_renderer",
                        Ptr(rr.audio_renderer), in.drain)>>
                 \o CHK_ALSA_ERRNO(in.drain, "ALSA PCM drain")
        close == <<Call("snd_pcm_close", "audio_renderer",
                        Ptr(rr.audio_renderer), in.close)>>
                 \o CHK_ALSA_ERRNO(in.close, "ALSA PCM close")
        ctlRet == IF rr.ctl = "NULL" THEN -22 ELSE in.ctlclose
        ctlclose == <<Call("snd_ctl_close", "ctl", Ptr(rr.ctl), ctlRet)>>
    IN  IF in.drain < 0
        THEN [calls |-> drain, abort |-> FALSE]
        ELSE IF in.close < 0
        THEN [calls |-> drain \o close, abort |-> FALSE]
        ELSE IF rr.ctl = "NULL" /\ in.ub = "abort"
        THEN [calls |-> drain \o close \o ctlclose, abort |-> TRUE]
        ELSE [calls |-> drain \o close \o ctlclose
                        \o CHK_ALSA_ERRNO(ctlRet, "ALSA CTL close"),
              abort |-> FALSE]

audio_renderer_rpi_destroy_renderer(rr, in) ==
    LET drain == <<Call("snd_pcm_drain", "audio_renderer",
                        Ptr(rr.audio_renderer), in.drain)>>
                 \o CHK_ALSA_ERRNO(in.drain, "ALSA PCM drain")
        close == <<Call("snd_pcm_close", "audio_renderer",
                        Ptr(rr.audio_renderer), in.close)>>
                 \o CHK_ALSA_ERRNO(in.close, "ALSA PCM close")
        ctlRet == IF rr.ctl = "NULL" THEN -22 ELSE in.ctlclose
        ctlclose == <<Call("snd_ctl_close", "ctl", Ptr(rr.ctl), ctlRet)>>
    IN  IF rr.ctl = "NULL" /\ in.ub = "abort"
        THEN [calls |-> drain \o close \o ctlclose, abort |-> TRUE]
        ELSE [calls |-> drain \o close \o ctlclose
                        \o CHK_ALSA_ERRNO(ctlRet, "ALSA CTL close"),
              abort |-> FALSE]

\* Lines 268-272: the teardown behind the NULL check.  h is the pointer
\* passed ("valid", or "dangling" for a renderer already destroyed) and rr
\* the memory it points to.
Teardown(h, rr, in) ==
    LET dev == audio_renderer_rpi_destroy_renderer(rr, in)
    IN  IF h = "dangling" /\ in.ub = "abort"
        THEN [calls |-> <<Flush>>
                        \o audio_renderer_alsa_destroy_decoder(
                               Ptr(rr.audio_decoder)),
              abort |-> TRUE]
        ELSE IF dev.abort
        THEN [calls |-> <<Flush>>
                        \o audio_renderer_alsa_destroy_decoder(
                               Ptr(rr.audio_decoder))
                        \o dev.calls,
              abort |-> TRUE]
        ELSE [calls |-> <<Flush>>
                        \o audio_renderer_alsa_destroy_decoder(
                               Ptr(rr.audio_decoder))
                        \o dev.calls \o <<FreeRenderer>>,
              abort |-> FALSE]

\* A destroy without `if (renderer)`.
destroy_NoNullCheck(h, rr, in) == Teardown(h, rr, in)

\* One audio_renderer_alsa_destroy(renderer).
audio_renderer_alsa_destroy(h, rr, in) ==
    IF h = "NULL"
    THEN [calls |-> <<>>, abort |-> FALSE]
    ELSE Teardown(h, rr, in)

(* ------------------------------ state ---------------------------------- *)

VARIABLES
    mHasCtrlVolume, \* static bool mHasCtrlVolume
    created,        \* number of audio_renderer_alsa_init calls so far
    handle,         \* the caller's pointer per creation: NULL, valid, dangling
    r,              \* the audio_renderer_alsa_t each creation allocated
    live,           \* outstanding objects per creation and kind
    configured,     \* raw configurations applied to each creation's decoder
    device,         \* the control surface each creation opened
    lastOp,         \* the handler that ran last, its argument and result
    calls,          \* the calls that handler made, in order
    halted          \* the process was ended inside a library call, or it
                    \* released a freed structure again: what it does next
                    \* is undefined and is not followed

vars == <<mHasCtrlVolume, created, handle, r, live, configured, device,
          lastOp, calls, halted>>

Op(op, slot, arg, ret, in) ==
    [op |-> op, slot |-> slot, arg |-> arg, ret |-> ret, in |-> in]

\* A control surface: its elements and the two channel values of the
\* element the renderer addresses.
NoDevice == [elems |-> <<>>, left |-> 2, right |-> 2]

Init ==
    /\ mHasCtrlVolume = FALSE
    /\ created = 0
    /\ handle = [s \in Slots |-> "NULL"]
    /\ r = [s \in Slots |-> ZeroRenderer]
    /\ live = [s \in Slots |-> [res \in Res |-> 0]]
    /\ configured = [s \in Slots |-> 0]
    /\ device = [s \in Slots |-> NoDevice]
    /\ lastOp = Op("none", 0, 0, "void", NoInput)
    /\ calls = <<>>
    /\ halted = FALSE

\* audio_renderer_alsa_init(logger, video_renderer, config), while fewer
\* than `max` renderers were created.
Create(max) ==
    /\ ~halted
    /\ created < max
    /\ \E in \in InitInputs :
        LET s   == created + 1
            out == audio_renderer_alsa_init(in, mHasCtrlVolume)
        IN  /\ created' = s
            /\ mHasCtrlVolume' = out.flag
            /\ handle' = [handle EXCEPT ![s] =
                            IF out.ret = "handle" THEN "valid" ELSE "NULL"]
            /\ r' = [r EXCEPT ![s] = out.r]
            /\ live' = [live EXCEPT ![s] = Heap(live[s], out.calls)]
            /\ configured' = [configured EXCEPT ![s] =
                                @ + ConfigsApplied(out.calls)]
            /\ device' = [device EXCEPT ![s] =
                            IF out.ret = "handle"
                            THEN [NoDevice EXCEPT !.elems = in.elems]
                            ELSE NoDevice]
            /\ lastOp' = Op("init", s, 0, out.ret, in)
            /\ calls' = out.calls
            /\ halted' = (out.ret = "abort")

InitRenderer == Create(MaxRenderers)

InitSoloRenderer == Create(MaxSoloRenderers)

\* renderer->funcs->start(renderer): nothing to do.
Start ==
    /\ ~halted
    /\ \E s \in Slots :
        /\ handle[s] = "valid"
        /\ lastOp' = Op("start", s, 0, "void", NoInput)
        /\ calls' = <<>>
        /\ UNCHANGED <<mHasCtrlVolume, created, handle, r, live, configured,
                       device, halted>>

\* renderer->funcs->flush(renderer): nothing to do.
FlushRenderer ==
    /\ ~halted
    /\ \E s \in Slots :
        /\ handle[s] = "valid"
        /\ lastOp' = Op("flush", s, 0, "void", NoInput)
        /\ calls' = <<>>
        /\ UNCHANGED <<mHasCtrlVolume, created, handle, r, live, configured,
                       device, halted>>

\* renderer->funcs->render_buffer(renderer, ntp, data, data_len, pts)
Render ==
    /\ ~halted
    /\ \E s \in Slots, data_len \in DataLens, in \in RenderInputs :
        /\ handle[s] = "valid"
        /\ data_len = 0 => in = QuietRender
        /\ LET out == audio_renderer_alsa_render_buffer(data_len, in)
           IN
            /\ live' = [live EXCEPT ![s] = Heap(live[s], out)]
            /\ configured' = [configured EXCEPT ![s] =
                                @ + ConfigsApplied(out)]
            /\ lastOp' = Op("render", s, data_len, "void", NoInput)
            /\ calls' = out
            /\ UNCHANGED <<mHasCtrlVolume, created, handle, r, device,
                           halted>>

\* renderer->funcs->set_volume(renderer, volume)
SetVolume ==
    /\ ~halted
    /\ \E s \in Slots, volume \in Volumes, in \in VolumeInputs :
        /\ handle[s] = "valid"
        /\ VolumeInputRead(mHasCtrlVolume, r[s], device[s], in)
        /\ LET out == audio_renderer_alsa_set_volume(mHasCtrlVolume, r[s],
                                                     device[s], volume, in)
           IN
            /\ device' = [device EXCEPT ![s] = out.dev]
            /\ lastOp' = Op("set_volume", s, volume,
                            IF out.abort THEN "abort" ELSE "void", NoInput)
            /\ calls' = out.calls
            /\ configured' = [configured EXCEPT ![s] =
                                @ + ConfigsApplied(out.calls)]
            /\ halted' = out.abort
            /\ UNCHANGED <<mHasCtrlVolume, created, handle, r, live>>

\* renderer->funcs->destroy(renderer), also on a NULL pointer and on the
\* pointer of a renderer that was destroyed before.
Destroy ==
    /\ ~halted
    /\ \E s \in Slots, in \in DestroyInputs :
        /\ DestroyInputRead(handle[s], r[s], in)
        /\ LET out == audio_renderer_alsa_destroy(handle[s], r[s], in)
           IN
            /\ handle' = [handle EXCEPT ![s] =
                            IF handle[s] = "NULL" THEN "NULL" ELSE "dangling"]
            /\ live' = [live EXCEPT ![s] = Heap(live[s], out.calls)]
            /\ configured' = [configured EXCEPT ![s] =
                                @ + ConfigsApplied(out.calls)]
            /\ lastOp' = Op("destroy", s,
                            CASE handle[s] = "NULL" -> 0
                              [] handle[s] = "valid" -> 1
                              [] OTHER -> 2,
                            IF out.abort THEN "abort" ELSE "void", NoInput)
            /\ calls' = out.calls
            /\ halted' = (out.abort \/ handle[s] = "dangling")
            /\ UNCHANGED <<mHasCtrlVolume, created, r, device>>

Next ==
    \/ InitRenderer
    \/ Start
    \/ FlushRenderer
    \/ Render
    \/ SetVolume
    \/ Destroy

Spec == Init /\ [][Next]_vars

\* The same process creating at most MaxSoloRenderers renderers.
NextSolo ==
    \/ InitSoloRenderer
    \/ Start
    \/ FlushRenderer
    \/ Render
    \/ SetVolume
    \/ Destroy

SpecSolo == Init /\ [][NextSolo]_vars

(* ======================= properties of the code ======================== *)

\* The calls of a trace to one function, their number, and the place of
\* the first of them.
CallsIn(trace, fn) == SelectSeq(trace, LAMBDA c : c.fn = fn)

NumIn(trace, fn) == Len(CallsIn(trace, fn))

PosIn(trace, fn) ==
    CHOOSE i \in DOMAIN trace :
        /\ trace[i].fn = fn
        /\ \A j \in 1..(i - 1) : trace[j].fn # fn

\* The functions called, in order, diagnostics left out.
FnsIn(trace) ==
    LET work == SelectSeq(trace, LAMBDA c : c.fn # "logger_log")
    IN  [i \in 1..Len(work) |-> work[i].fn]

IsPrefix(a, b) == Len(a) <= Len(b) /\ a = SubSeq(b, 1, Len(a))

\* Some element of a list has a name containing "Playback Volume".
HasMatch(elems) ==
    \E i \in DOMAIN elems : strstr(elems[i], PlaybackVolume)

\* C1: whenever a phase of audio_renderer_alsa_init fails (decoder open,
\* decoder raw configuration, stream-info query, PCM open, PCM parameter
\* negotiation), the call returns NULL and nothing the call acquired is
\* still allocated.  The code contradicts it.
C1_FailedInitReleasesEverything ==
    (lastOp.op = "init" /\ lastOp.in.fail \in FatalPoints) =>
        /\ lastOp.ret = "NULL"
        /\ \A res \in Res : live[lastOp.slot][res] = 0

\* C2: audio_renderer_alsa_init returns a handle only when decoder open,
\* decoder configuration, PCM open, PCM parameter negotiation and
\* snd_ctl_open all succeeded, so that a returned handle has a decoder, a
\* PCM stream and a control handle.  The code contradicts it.
C2_HandleOnlyAfterAllFiveSteps ==
    (lastOp.op = "init" /\ lastOp.ret = "handle") =>
        /\ \A c \in {calls[i] : i \in DOMAIN calls} :
              c.fn \in {"snd_pcm_open", "snd_pcm_set_params", "snd_ctl_open"}
                  => c.ret >= 0
        /\ r[lastOp.slot].audio_decoder = "set"
        /\ r[lastOp.slot].audio_renderer = "set"
        /\ r[lastOp.slot].ctl = "set"

\* C3: when PCM open or PCM parameter negotiation fails after the decoder
\* was opened, the creation call closes that decoder exactly once (after
\* opening it), returns no handle, and no decoder stays allocated.
C3_DeviceFailureClosesDecoderOnce ==
    (lastOp.op = "init" /\ lastOp.in.fail \in {"pcmOpen", "setParams"}) =>
        /\ lastOp.ret = "NULL"
        /\ handle[lastOp.slot] = "NULL"
        /\ NumIn(calls, "aacDecoder_Open") = 1
        /\ NumIn(calls, "aacDecoder_Close") = 1
        /\ CallsIn(calls, "aacDecoder_Close")[1].arg = 1
        /\ PosIn(calls, "aacDecoder_Open") < PosIn(calls, "aacDecoder_Close")
        /\ PosIn(calls, "snd_pcm_open") < PosIn(calls, "aacDecoder_Close")
        /\ live[lastOp.slot]["audio_decoder"] = 0

C3_Witness ==
    /\ lastOp.op = "init"
    /\ lastOp.in.fail = "setParams"
    /\ lastOp.ret = "NULL"
    /\ NumIn(calls, "aacDecoder_Close") = 1
    /\ live[lastOp.slot]["audio_decoder"] = 0

\* C4: a render call with length zero makes no call at all (no fill, no
\* decode, no allocation, no write); a render call with a non-zero length
\* makes exactly one aacDecoder_Fill of that length, then exactly one
\* aacDecoder_DecodeFrame into a buffer of 4 * 480 bytes, then exactly one
\* snd_pcm_writei of the 480 frames that buffer holds.
C4_RenderFillsDecodesWritesOnce ==
    lastOp.op = "render" =>
        IF lastOp.arg = 0
        THEN calls = <<>>
        ELSE /\ NumIn(calls, "aacDecoder_Fill") = 1
             /\ NumIn(calls, "aacDecoder_DecodeFrame") = 1
             /\ NumIn(calls, "snd_pcm_writei") = 1
             /\ PosIn(calls, "aacDecoder_Fill")
                    < PosIn(calls, "aacDecoder_DecodeFrame")
             /\ PosIn(calls, "aacDecoder_DecodeFrame")
                    < PosIn(calls, "snd_pcm_writei")
             /\ CallsIn(calls, "aacDecoder_Fill")[1].arg = lastOp.arg
             /\ CallsIn(calls, "aacDecoder_DecodeFrame")[1].arg
                    = BytesPerSample * SamplesPerBuffer
             /\ CallsIn(calls, "snd_pcm_writei")[1].arg = SamplesPerBuffer
             /\ CallsIn(calls, "snd_pcm_writei")[1].arg * Channels * SampleBytes
                    = BytesPerSample * SamplesPerBuffer

C4_Witness ==
    /\ lastOp.op = "render"
    /\ lastOp.arg # 0
    /\ NumIn(calls, "aacDecoder_Fill") = 1
    /\ NumIn(calls, "snd_pcm_writei") = 1
    /\ CallsIn(calls, "snd_pcm_writei")[1].arg = SamplesPerBuffer

\* C5: a set-volume call on a renderer whose own control surface has no
\* element named "... Playback Volume ..." makes no call: no dB conversion
\* and no control-element write.  The code contradicts it.
C5_NoMatchSetVolumeIsNoOp ==
    (lastOp.op = "set_volume" /\ ~HasMatch(device[lastOp.slot].elems)) =>
        calls = <<>>

\* C6: after a construction in which every library call succeeded, on any
\* element list (the empty one included): mHasCtrlVolume is true exactly
\* when some element name contains "Playback Volume", the construction
\* returned a handle, and with a match the recorded numid is that of a
\* matching element.  The code contradicts it.
C6_FlagTellsWhetherAnElementMatches ==
    (lastOp.op = "init" /\ lastOp.in.fail = "none" /\ lastOp.in.ctl = "ok") =>
        /\ lastOp.ret = "handle"
        /\ mHasCtrlVolume = HasMatch(lastOp.in.elems)
        /\ HasMatch(lastOp.in.elems) =>
              /\ r[lastOp.slot].numid \in DOMAIN lastOp.in.elems
              /\ strstr(lastOp.in.elems[r[lastOp.slot].numid], PlaybackVolume)

\* C7: in a render call whose snd_pcm_writei returns a negative value,
\* snd_pcm_recover is called exactly once, after the write and with that
\* value, and there is no second write; whether the recovery succeeds or
\* fails the call returns normally and leaves the renderer, the heap, the
\* device and the flag as they were, so the handle stays valid for the
\* next render call.
C7_NegativeWriteRecoversOnce ==
    [][(/\ lastOp'.op = "render"
        /\ lastOp'.arg # 0
        /\ CallsIn(calls', "snd_pcm_writei")[1].ret < 0) =>
           /\ NumIn(calls', "snd_pcm_writei") = 1
           /\ NumIn(calls', "snd_pcm_recover") = 1
           /\ CallsIn(calls', "snd_pcm_recover")[1].arg
                  = CallsIn(calls', "snd_pcm_writei")[1].ret
           /\ PosIn(calls', "snd_pcm_writei") < PosIn(calls', "snd_pcm_recover")
           /\ lastOp'.ret = "void"
           /\ ~halted'
           /\ handle'[lastOp'.slot] = "valid"
           /\ UNCHANGED <<mHasCtrlVolume, created, handle, r, live, configured,
                          device>>
      ]_vars

C7_Witness ==
    /\ lastOp.op = "render"
    /\ NumIn(calls, "snd_pcm_recover") = 1
    /\ CallsIn(calls, "snd_pcm_writei")[1].ret < 0
    /\ CallsIn(calls, "snd_pcm_recover")[1].ret < 0
    /\ handle[lastOp.slot] = "valid"
    /\ ~halted

\* C8: destroy on a NULL handle makes no call (no flush, no decoder close,
\* no drain, no PCM close, no control close, no free) and returns.
C8_DestroyNullIsNoOp ==
    (lastOp.op = "destroy" /\ lastOp.arg = 0) =>
        /\ calls = <<>>
        /\ lastOp.ret = "void"
        /\ ~halted

C8_Witness ==
    /\ lastOp.op = "destroy"
    /\ lastOp.arg = 0
    /\ lastOp.slot <= created
    /\ calls = <<>>

\* C9: a second destroy on a handle that was already destroyed makes no
\* call, so that nothing is closed or freed twice.  The code contradicts
\* it.
C9_SecondDestroyIsNoOp ==
    (lastOp.op = "destroy" /\ lastOp.arg = 2) =>
        /\ calls = <<>>
        /\ \A res \in Res : live[lastOp.slot][res] >= 0
        /\ ~halted

\* The order of teardown.
TeardownOrder ==
    <<"audio_renderer_alsa_flush", "aacDecoder_Close", "snd_pcm_drain",
      "snd_pcm_close", "snd_ctl_close", "free">>

C11_DecoderErrorsAreNotFatal ==
    [][(lastOp'.op = "render" /\ lastOp'.arg # 0) =>
           /\ NumIn(calls', "aacDecoder_Fill") = 1
           /\ NumIn(calls', "aacDecoder_DecodeFrame") = 1
           /\ NumIn(calls', "snd_pcm_writei") = 1
           /\ CallsIn(calls', "aacDecoder_Fill")[1].ret # 0 =>
                  PosIn(calls', "aacDecoder_Fill")
                      < PosIn(calls', "aacDecoder_DecodeFrame")
           /\ CallsIn(calls', "aacDecoder_DecodeFrame")[1].ret # 0 =>
                  /\ PosIn(calls', "aacDecoder_DecodeFrame")
                         < PosIn(calls', "snd_pcm_writei")
                  /\ CallsIn(calls', "snd_pcm_writei")[1].arg
                         = snd_pcm_bytes_to_frames(time_data_size)
           /\ lastOp'.ret = "void"
           /\ UNCHANGED <<mHasCtrlVolume, created, handle, r, live, configured,
                          device, halted>>
      ]_vars

C11_Witness ==
    /\ lastOp.op = "render"
    /\ lastOp.arg # 0
    /\ CallsIn(calls, "aacDecoder_Fill")[1].ret # 0
    /\ CallsIn(calls, "aacDecoder_DecodeFrame")[1].ret # 0
    /\ NumIn(calls, "snd_pcm_writei") = 1
    /\ CallsIn(calls, "snd_pcm_writei")[1].ret = SamplesPerBuffer

\* The place of the last call of a trace to one function.
LastPosIn(trace, fn) ==
    CHOOSE i \in DOMAIN trace :
        /\ trace[i].fn = fn
        /\ \A j \in (i + 1)..Len(trace) : trace[j].fn # fn

\* C12: every render call with a non-zero length calls malloc exactly once
\* for a frame buffer of 4 * 480 bytes and free exactly once on the
\* pointer malloc returned; the free is the last call of the handler,
\* after the write and after the recovery if there was one, whatever the
\* write returned (full, partial, error recovered, error not recovered).
\* A render call with length zero allocates nothing.  In every state
\* reached, no frame buffer is outstanding on any renderer.
C12_FrameBufferFreedOncePerRender ==
    /\ \A s \in Slots : live[s]["p_time_data"] = 0
    /\ (lastOp.op = "render" /\ lastOp.arg = 0) =>
           NumIn(calls, "malloc") = 0 /\ NumIn(calls, "free") = 0
    /\ (lastOp.op = "render" /\ lastOp.arg # 0) =>
           /\ NumIn(calls, "malloc") = 1
           /\ NumIn(calls, "free") = 1
           /\ CallsIn(calls, "malloc")[1].obj = "p_time_data"
           /\ CallsIn(calls, "malloc")[1].arg = BytesPerSample * SamplesPerBuffer
           /\ CallsIn(calls, "free")[1].obj = "p_time_data"
           /\ CallsIn(calls, "free")[1].arg = CallsIn(calls, "malloc")[1].ret
           /\ PosIn(calls, "malloc") < PosIn(calls, "snd_pcm_writei")
           /\ LastPosIn(calls, "snd_pcm_writei") < PosIn(calls, "free")
           /\ NumIn(calls, "snd_pcm_recover") > 0 =>
                  LastPosIn(calls, "snd_pcm_recover") < PosIn(calls, "free")
           /\ PosIn(calls, "free") = Len(calls)

C12_Witness ==
    /\ lastOp.op = "render"
    /\ lastOp.arg # 0
    /\ CallsIn(calls, "malloc")[1].ret = 1
    /\ CallsIn(calls, "snd_pcm_writei")[1].ret < 0
    /\ CallsIn(calls, "snd_pcm_recover")[1].ret < 0
    /\ calls[Len(calls)] = Call("free", "p_time_data", 1, 0)
    /\ live[lastOp.slot]["p_time_data"] = 0

\* C13: in a render call with a non-zero length snd_pcm_recover is called
\* (once) if and only if snd_pcm_writei returned a negative value.  When
\* the write returns a positive count below the 480 frames requested
\* there is no recovery and no second write: the remainder of the frame is
\* not submitted again, only the diagnostic is logged.
C13_RecoverOnlyAfterNegativeWrite ==
    (lastOp.op = "render" /\ lastOp.arg # 0) =>
        LET write == CallsIn(calls, "snd_pcm_writei")[1]
        IN  /\ NumIn(calls, "snd_pcm_recover") \in {0, 1}
            /\ (NumIn(calls, "snd_pcm_recover") = 1) <=> (write.ret < 0)
            /\ (write.ret > 0 /\ write.ret < write.arg) =>
                   /\ NumIn(calls, "snd_pcm_recover") = 0
                   /\ NumIn(calls, "snd_pcm_writei") = 1
                   /\ Log("ALSA: Expected write")
                          \in {calls[i] : i \in DOMAIN calls}

C13_Witness ==
    /\ lastOp.op = "render"
    /\ lastOp.arg # 0
    /\ CallsIn(calls, "snd_pcm_writei")[1].ret > 0
    /\ CallsIn(calls, "snd_pcm_writei")[1].ret
           < CallsIn(calls, "snd_pcm_writei")[1].arg
    /\ NumIn(calls, "snd_pcm_recover") = 0
    /\ NumIn(calls, "snd_pcm_writei") = 1

\* The arguments of the calls of a trace to one function on one object.
ArgsIn(trace, fn, obj) ==
    LET hits == SelectSeq(trace, LAMBDA c : c.fn = fn /\ c.obj = obj)
    IN  [i \in 1..Len(hits) |-> hits[i].arg]

\* C14: a set-volume call made while mHasCtrlVolume is true, on a renderer
\* that has its control handle and the numid of a "Playback Volume"
\* element of its device, makes exactly one snd_ctl_convert_from_dB and
\* exactly one snd_ctl_elem_write; the values set for channel 0 and for
\* channel 1 are equal and are the raw value the conversion gives for the
\* gain passed, so the value written is a function of the volume
\* argument; and the call returns, whether or not the conversion or the
\* write failed.  The code contradicts it.
C14_SetVolumeWritesConvertedValue ==
    (/\ lastOp.op = "set_volume"
     /\ mHasCtrlVolume
     /\ r[lastOp.slot].ctl = "set"
     /\ r[lastOp.slot].numid \in DOMAIN device[lastOp.slot].elems) =>
        /\ NumIn(calls, "snd_ctl_convert_from_dB") = 1
        /\ NumIn(calls, "snd_ctl_elem_write") = 1
        /\ CallsIn(calls, "snd_ctl_convert_from_dB")[1].arg
               = CastLong(lastOp.arg) * VolumeScale
        /\ ArgsIn(calls, "snd_ctl_elem_value_set_integer", "value[0]")
               = ArgsIn(calls, "snd_ctl_elem_value_set_integer", "value[1]")
        /\ ArgsIn(calls, "snd_ctl_elem_value_set_integer", "value[0]")
               = <<snd_ctl_convert_from_dB(CastLong(lastOp.arg) * VolumeScale)>>
        /\ lastOp.ret = "void"
        /\ ~halted

C16_ConfiguredOnceBeforeAnyFrame ==
    /\ \A s \in Slots :
          /\ configured[s] \in {0, 1}
          /\ handle[s] = "valid" => configured[s] = 1
    /\ (lastOp.op = "init" /\ lastOp.ret = "handle") =>
          /\ NumIn(calls, "aacDecoder_ConfigRaw") = 1
          /\ CallsIn(calls, "aacDecoder_ConfigRaw")[1].ret = 0
          /\ PosIn(calls, "aacDecoder_Open")
                 < PosIn(calls, "aacDecoder_ConfigRaw")
    /\ lastOp.op = "init" =>
          /\ NumIn(calls, "aacDecoder_Fill") = 0
          /\ NumIn(calls, "aacDecoder_DecodeFrame") = 0
    /\ lastOp.op # "init" => NumIn(calls, "aacDecoder_ConfigRaw") = 0
    /\ (NumIn(calls, "aacDecoder_Fill") > 0
        \/ NumIn(calls, "aacDecoder_DecodeFrame") > 0) =>
          /\ lastOp.op = "render"
          /\ configured[lastOp.slot] = 1

C16_Witness ==
    /\ lastOp.op = "render"
    /\ NumIn(calls, "aacDecoder_Fill") = 1
    /\ NumIn(calls, "aacDecoder_DecodeFrame") = 1
    /\ NumIn(calls, "aacDecoder_ConfigRaw") = 0
    /\ configured[lastOp.slot] = 1

\* C17: after a destroy of a renderer that audio_renderer_alsa_init
\* returned, everything its construction acquired has been released, once:
\* the decoder, the PCM stream, the control handle, the control element
\* id of snd_ctl_elem_id_malloc and the structure; nothing of the
\* instance is outstanding.  The code contradicts it.
C17_DestroyReleasesEverything ==
    (lastOp.op = "destroy" /\ lastOp.arg = 1 /\ lastOp.ret = "void") =>
        /\ \A res \in Res : live[lastOp.slot][res] = 0
        /\ NumIn(calls, "aacDecoder_Close") = 1
        /\ NumIn(calls, "snd_pcm_close") = 1
        /\ NumIn(calls, "snd_ctl_close") = 1
        /\ NumIn(calls, "snd_ctl_elem_id_free") = 1
        /\ NumIn(calls, "free") = 1

\* The creations that returned a handle, and the latest of them.
Built == {s \in 1..created : handle[s] # "NULL"}

LastBuilt == CHOOSE s \in Built : \A t \in Built : t <= s

\* C18: mHasCtrlVolume is written only by a construction that got past
\* snd_pcm_set_params: a creation call that fails in a fatal phase leaves
\* it as it was, and start, flush, render, set-volume and destroy never
\* change it; and in every state it equals the match result of the most
\* recent construction that returned a handle (whether a name of its
\* element list contains "Playback Volume"), false before any.  The code
\* contradicts the second part.
C18_FlagFollowsLastConstruction ==
    /\ [][/\ (lastOp'.op = "init" /\ lastOp'.in.fail \in FatalPoints) =>
                 mHasCtrlVolume' = mHasCtrlVolume
          /\ lastOp'.op # "init" => mHasCtrlVolume' = mHasCtrlVolume
         ]_vars
    /\ [](mHasCtrlVolume = IF Built = {}
                           THEN FALSE
                           ELSE HasMatch(device[LastBuilt].elems))

====
